---- MODULE Spec2Model ----
(***************************************************************************)
(* Model of package form's flattening subsystem (reflect.go): valueOf,     *)
(* fields, applyTags and parseTags, together with the parts of Go's        *)
(* reflect and strings packages those functions call.                      *)
(*                                                                         *)
(* A Go string is modelled as a sequence of one-character strings, so that *)
(* strings.Split, strings.TrimSpace and strings.Join are computed on the   *)
(* characters.  A Go map[string]string is a function whose domain is the   *)
(* set of its keys.  Positions (struct field indices) are 1-based.         *)
(***************************************************************************)
EXTENDS Integers, Sequences, FiniteSets, TLC

VARIABLES arg, ret, parsed, applied

vars == <<arg, ret, parsed, applied>>

(***************************************************************************)
(* Bounds of the model.                                                    *)
(***************************************************************************)
\* The number of components (leaves and records) declared in the whole type
\* tree of a generated record type.
MaxNodes == 3
\* The number of `;`-separated segments of a generated annotation.
MaxSegs == 2

(***************************************************************************)
(* package strings                                                         *)
(***************************************************************************)
WhiteSpace == {" "}

RECURSIVE TrimLeft(_)
TrimLeft(s) ==
    IF Len(s) > 0 /\ Head(s) \in WhiteSpace THEN TrimLeft(Tail(s)) ELSE s

RECURSIVE TrimRight(_)
TrimRight(s) ==
    IF Len(s) > 0 /\ s[Len(s)] \in WhiteSpace
    THEN TrimRight(SubSeq(s, 1, Len(s) - 1))
    ELSE s

\* strings.TrimSpace
TrimSpace(s) == TrimRight(TrimLeft(s))

\* The position of the first occurrence of the character sep in s, 0 if none.
IndexOf(s, sep) ==
    IF \E i \in 1..Len(s) : s[i] = sep
    THEN CHOOSE i \in 1..Len(s) : s[i] = sep /\ \A j \in 1..(i - 1) : s[j] # sep
    ELSE 0

\* strings.Split(s, sep) for a one-character separator: every piece between
\* two occurrences of sep, empty pieces kept; one piece when sep is absent.
RECURSIVE Split(_, _)
Split(s, sep) ==
    LET i == IndexOf(s, sep)
    IN  IF i = 0
        THEN <<s>>
        ELSE <<SubSeq(s, 1, i - 1)>> \o Split(SubSeq(s, i + 1, Len(s)), sep)

\* strings.Join(elems, sep)
RECURSIVE Join(_, _)
Join(elems, sep) ==
    IF Len(elems) = 0 THEN <<>>
    ELSE IF Len(elems) = 1 THEN elems[1]
    ELSE elems[1] \o sep \o Join(Tail(elems), sep)

(***************************************************************************)
(* Go maps                                                                 *)
(***************************************************************************)
EmptyMap == <<>>

\* m[k] = v
MapPut(m, k, v) ==
    [x \in (DOMAIN m) \cup {k} |-> IF x = k THEN v ELSE m[x]]

(***************************************************************************)
(* The words of the annotation language and of the generated inputs.       *)
(***************************************************************************)
kName        == <<"n", "a", "m", "e">>
kLabel       == <<"l", "a", "b", "e", "l">>
kPlaceholder == <<"p", "l", "a", "c", "e", "h", "o", "l", "d", "e", "r">>
kType        == <<"t", "y", "p", "e">>
kId          == <<"i", "d">>
kFooter      == <<"f", "o", "o", "t", "e", "r">>
kClass       == <<"c", "l", "a", "s", "s">>
kReadonly    == <<"r", "e", "a", "d", "o", "n", "l", "y">>
kOptions     == <<"o", "p", "t", "i", "o", "n", "s">>
sText        == <<"t", "e", "x", "t">>
sTrue        == <<"t", "r", "u", "e">>

(***************************************************************************)
(* parseTags                                                               *)
(***************************************************************************)
\* A variant of isIgnoreMarker that trims the segment before comparing it.
isIgnoreMarkerTrimmed(kv) == TrimSpace(kv[1]) = <<"-">>

\* kv[0] == "-" for a segment without "="
isIgnoreMarker(kv) == kv[1] = <<"-">>

RECURSIVE parseLoop(_, _, _)
parseLoop(split, i, m) ==
    IF i > Len(split)
    THEN [tags |-> m, ignored |-> FALSE]
    ELSE LET kv == Split(split[i], "=")
         IN  IF Len(kv) < 2
             THEN IF isIgnoreMarker(kv)
                  THEN [tags |-> EmptyMap, ignored |-> TRUE]
                  ELSE parseLoop(split, i + 1, m)
             ELSE parseLoop(split, i + 1,
                            MapPut(m, TrimSpace(kv[1]), TrimSpace(kv[2])))

parseTags(tags) ==
    LET t == TrimSpace(tags)
    IN  IF Len(t) = 0
        THEN [tags |-> EmptyMap, ignored |-> FALSE]
        ELSE parseLoop(Split(t, ";"), 1, EmptyMap)

(***************************************************************************)
(* applyTags                                                               *)
(***************************************************************************)
Has(tags, k) == k \in DOMAIN tags

\* A variant of applyTags that applies label after placeholder, and so lets
\* label overwrite the placeholder.
applyTagsLabelLast(f, tags) ==
    LET f1 == IF Has(tags, kName) THEN [f EXCEPT !.Name = tags[kName]] ELSE f
        f2 == IF Has(tags, kPlaceholder)
              THEN [f1 EXCEPT !.Placeholder = tags[kPlaceholder]]
              ELSE f1
        f3 == IF Has(tags, kLabel)
              THEN [f2 EXCEPT !.Label = tags[kLabel],
                              !.Placeholder = tags[kLabel]]
              ELSE f2
        f4 == IF Has(tags, kType) THEN [f3 EXCEPT !.Type = tags[kType]] ELSE f3
        f5 == IF Has(tags, kId) THEN [f4 EXCEPT !.ID = tags[kId]] ELSE f4
        f6 == IF Has(tags, kFooter)
              THEN [f5 EXCEPT !.Footer = tags[kFooter]]
              ELSE f5
        f7 == IF Has(tags, kClass) THEN [f6 EXCEPT !.Class = tags[kClass]] ELSE f6
        f8 == IF Has(tags, kReadonly)
              THEN [f7 EXCEPT !.ReadOnly = (tags[kReadonly] = sTrue)]
              ELSE f7
    IN  f8

applyTags(f, tags) ==
    LET f1 == IF Has(tags, kName) THEN [f EXCEPT !.Name = tags[kName]] ELSE f
        f2 == IF Has(tags, kLabel)
              THEN [f1 EXCEPT !.Label = tags[kLabel],
                              !.Placeholder = tags[kLabel]]
              ELSE f1
        f3 == IF Has(tags, kPlaceholder)
              THEN [f2 EXCEPT !.Placeholder = tags[kPlaceholder]]
              ELSE f2
        f4 == IF Has(tags, kType) THEN [f3 EXCEPT !.Type = tags[kType]] ELSE f3
        f5 == IF Has(tags, kId) THEN [f4 EXCEPT !.ID = tags[kId]] ELSE f4
        f6 == IF Has(tags, kFooter)
              THEN [f5 EXCEPT !.Footer = tags[kFooter]]
              ELSE f5
        f7 == IF Has(tags, kClass) THEN [f6 EXCEPT !.Class = tags[kClass]] ELSE f6
        f8 == IF Has(tags, kReadonly)
              THEN [f7 EXCEPT !.ReadOnly = (tags[kReadonly] = sTrue)]
              ELSE f7
    IN  f8

(***************************************************************************)
(* package reflect: types and values                                       *)
(*                                                                         *)
(* A type is [kind |-> "string"], [kind |-> "ptr", elem |-> t] or          *)
(* [kind |-> "struct", fields |-> <<StructField, ...>>].  A reflect.Value  *)
(* is [t |-> type, v |-> contents], the contents being [s |-> characters]  *)
(* for a string, [f |-> <<contents of each component>>] for a struct and,  *)
(* for a pointer, [p |-> <<>>] (nil) or [p |-> <<contents of the target>>].*)
(***************************************************************************)
StringT == [kind |-> "string"]
PtrT(e) == [kind |-> "ptr", elem |-> e]
StructT(fs) == [kind |-> "struct", fields |-> fs]

\* The zero reflect.Value, of Kind Invalid.
InvalidValue == [t |-> [kind |-> "invalid"], v |-> [none |-> TRUE]]

\* rv.Kind()
Kind(rv) == rv.t.kind

\* rv.IsNil() of a pointer
IsNil(rv) == rv.v.p = <<>>

\* rv.Elem() of a pointer: the zero Value when the pointer is nil
Elem(rv) == IF IsNil(rv) THEN InvalidValue ELSE [t |-> rv.t.elem, v |-> rv.v.p[1]]

\* The contents of the zero value of type t.
RECURSIVE ZeroContents(_)
ZeroContents(t) ==
    IF t.kind = "struct"
    THEN [f |-> [i \in 1..Len(t.fields) |-> ZeroContents(t.fields[i].Type)]]
    ELSE IF t.kind = "ptr" THEN [p |-> <<>>]
    ELSE [s |-> <<>>]

\* reflect.Zero(t)
Zero(t) == [t |-> t, v |-> ZeroContents(t)]

\* reflect.Indirect(rv)
Indirect(rv) == IF Kind(rv) # "ptr" THEN rv ELSE Elem(rv)

\* rv.Field(i)
Field(rv, i) == [t |-> rv.t.fields[i].Type, v |-> rv.v.f[i]]

NilEmbedded == "reflect: indirection through nil pointer to embedded struct"

\* rv.FieldByIndex(index): steps through embedded structs, through a pointer to
\* an embedded struct too, and panics when that pointer is nil.
RECURSIVE FieldByIndexFrom(_, _, _)
FieldByIndexFrom(rv, index, i) ==
    IF i > Len(index)
    THEN [panic |-> "", rv |-> rv]
    ELSE IF i > 1 /\ Kind(rv) = "ptr" /\ rv.t.elem.kind = "struct"
         THEN IF IsNil(rv)
              THEN [panic |-> NilEmbedded, rv |-> InvalidValue]
              ELSE FieldByIndexFrom(Field(Elem(rv), index[i]), index, i + 1)
         ELSE FieldByIndexFrom(Field(rv, index[i]), index, i + 1)

FieldByIndex(rv, index) == FieldByIndexFrom(rv, index, 1)

\* A variant of IsExported that takes every component for exported.
IsExportedAny(tf) == TRUE

\* tf.IsExported()
IsExported(tf) == tf.PkgPath = ""

(***************************************************************************)
(* reflect.VisibleFields: the walk over a struct type and the struct types *)
(* it embeds.  w.fields are the fields found so far (a hidden one has its  *)
(* Name emptied), w.byName the position in w.fields of the field last      *)
(* added under each name, w.index the index path of the walk.              *)
(***************************************************************************)
RECURSIVE walk(_, _)
RECURSIVE walkFrom(_, _, _)
walkFrom(t, i, w) ==
    IF i > Len(t.fields)
    THEN w
    ELSE LET f == t.fields[i]
             index == Append(w.index, i)
             known == f.Name \in DOMAIN w.byName
             oldIndex == w.byName[f.Name]
             old == w.fields[oldIndex]
             \* same depth: both cancel; the old one is deeper: it loses
             hideOld == known /\ Len(index) <= Len(old.Index)
             add == ~known \/ Len(index) < Len(old.Index)
             kept == IF hideOld
                     THEN [w.fields EXCEPT ![oldIndex].Name = <<>>]
                     ELSE w.fields
             w2 == IF add
                   THEN [fields |-> Append(kept, [f EXCEPT !.Index = index]),
                         byName |-> MapPut(w.byName, f.Name, Len(kept) + 1),
                         index  |-> index]
                   ELSE [fields |-> kept, byName |-> w.byName, index |-> index]
             ft == IF f.Anonymous /\ f.Type.kind = "ptr" THEN f.Type.elem ELSE f.Type
             w3 == IF f.Anonymous /\ ft.kind = "struct" THEN walk(ft, w2) ELSE w2
         IN  walkFrom(t, i + 1, [w3 EXCEPT !.index = w.index])

walk(t, w) == walkFrom(t, 1, w)

VisibleFields(t) ==
    LET w == walk(t, [fields |-> <<>>, byName |-> EmptyMap, index |-> <<>>])
    IN  SelectSeq(w.fields, LAMBDA f : f.Name # <<>>)

(***************************************************************************)
(* valueOf                                                                 *)
(***************************************************************************)
\* for rv.Kind() == reflect.Pointer || rv.Kind() == reflect.Interface
\* (no generated value holds an interface)
RECURSIVE elemWhilePointer(_)
elemWhilePointer(rv) ==
    IF Kind(rv) = "ptr" THEN elemWhilePointer(Elem(rv)) ELSE rv

valueOf(v) ==
    LET rv == IF v.t.kind = "ptr" /\ IsNil(v) THEN Zero(v.t.elem) ELSE v
    IN  elemWhilePointer(rv)

(***************************************************************************)
(* fields                                                                  *)
(*                                                                         *)
(* A call ends [panic |-> "", ret |-> <<field, ...>>] or, panicking,       *)
(* [panic |-> message, ret |-> <<>>].  Besides the attributes of the Go    *)
(* struct, a field of the model carries Idx, a history attribute: the      *)
(* index path of its component in the type tree of the top-level record    *)
(* (the tf.Index of every level of the recursion, concatenated; base is    *)
(* the path of the record being walked).                                   *)
(***************************************************************************)
NotARecord == "invalid value; only structs are supported"

Returned(list) == [panic |-> "", ret |-> list]
Panicked(msg) == [panic |-> msg, ret |-> <<>>]

\* A variant of isNestedStruct that does not look behind a pointer.
isNestedStructNoIndirect(rf) == Kind(rf) = "struct"

\* reflect.Indirect(rf).Kind() == reflect.Struct
isNestedStruct(rf) == Kind(Indirect(rf)) = "struct"

\* A variant of appendName that forgets the names of the enclosing records.
appendNameAlone(names, tf) == <<tf.Name>>

\* append(names, tf.Name)
appendName(names, tf) == Append(names, tf.Name)

\* A variant of appendNested that puts the nested record's fields first.
appendNestedFirst(list, nested) == nested \o list

\* ret = append(ret, fields(...)...)
appendNested(list, nested) == list \o nested

\* the field with its default values
defaultField(names, tf, rf, idx) ==
    [Name        |-> Join(appendName(names, tf), <<".">>),
     Label       |-> tf.Name,
     Placeholder |-> tf.Name,
     Type        |-> sText,
     ID          |-> <<>>,
     ReadOnly    |-> FALSE,
     Value       |-> rf,
     Footer      |-> <<>>,
     Class       |-> <<>>,
     Idx         |-> idx]

RECURSIVE fields(_, _, _)
RECURSIVE fieldsFrom(_, _, _, _, _, _)
fieldsFrom(rv, vFields, i, names, base, list) ==
    IF i > Len(vFields)
    THEN Returned(list)
    ELSE LET tf == vFields[i]
             got == FieldByIndex(rv, tf.Index)
             rf == IF tf.Type.kind = "ptr" /\ IsNil(got.rv)
                   THEN Zero(tf.Type.elem)
                   ELSE got.rv
             nested == fields(rf, appendName(names, tf), base \o tf.Index)
             p == parseTags(tf.Tag)
             f == defaultField(names, tf, rf, base \o tf.Index)
         IN  IF ~IsExported(tf)
             THEN fieldsFrom(rv, vFields, i + 1, names, base, list)
             ELSE IF got.panic # ""
             THEN Panicked(got.panic)
             ELSE IF isNestedStruct(rf)
             THEN IF ~tf.Anonymous
                  THEN IF nested.panic # ""
                       THEN nested
                       ELSE fieldsFrom(rv, vFields, i + 1, names, base,
                                       appendNested(list, nested.ret))
                  ELSE fieldsFrom(rv, vFields, i + 1, names, base, list)
             ELSE IF p.ignored
             THEN fieldsFrom(rv, vFields, i + 1, names, base, list)
             ELSE fieldsFrom(rv, vFields, i + 1, names, base,
                             Append(list, applyTags(f, p.tags)))

fields(v, names, base) ==
    LET rv == valueOf(v)
    IN  IF Kind(rv) # "struct"
        THEN Panicked(NotARecord)
        ELSE fieldsFrom(rv, VisibleFields(rv.t), 1, names, base, <<>>)

(***************************************************************************)
(* The inputs: record types, their values, and the annotations.            *)
(***************************************************************************)
nName    == <<"N", "a", "m", "e">>
nCity    == <<"C", "i", "t", "y">>
nData    == <<"d", "a", "t", "a">>
nAddress == <<"A", "d", "d", "r", "e", "s", "s">>
nInner   == <<"i", "n", "n", "e", "r">>

UpperCase == {"A", "B", "C", "D", "E", "F", "G", "H", "I", "J", "K", "L", "M",
              "N", "O", "P", "Q", "R", "S", "T", "U", "V", "W", "X", "Y", "Z"}

\* A declared component: reflect.StructField.  PkgPath is empty for an
\* exported (upper case) name; Index is set by t.Field(i) and VisibleFields.
StructField(name, anonymous, tag, type) ==
    [Name      |-> name,
     PkgPath   |-> IF Head(name) \in UpperCase THEN "" ELSE "form",
     Anonymous |-> anonymous,
     Tag       |-> tag,
     Type      |-> type,
     Index     |-> <<>>]

tagNone == <<>>
tagDash == <<"-">>
tagName == kName \o <<"=", "s">>

LeafDecls ==
    { StructField(nName, FALSE, tagNone, StringT),
      StructField(nCity, FALSE, tagName, StringT),
      StructField(nCity, FALSE, tagDash, StringT),
      StructField(nData, FALSE, tagNone, StringT) }

\* The record components: named or embedded, held directly or through a pointer.
RecordKinds ==
    { [Name |-> nAddress, Anonymous |-> FALSE, Pointer |-> FALSE],
      [Name |-> nAddress, Anonymous |-> FALSE, Pointer |-> TRUE],
      [Name |-> nAddress, Anonymous |-> TRUE,  Pointer |-> FALSE],
      [Name |-> nAddress, Anonymous |-> TRUE,  Pointer |-> TRUE],
      [Name |-> nInner,   Anonymous |-> FALSE, Pointer |-> FALSE],
      [Name |-> nInner,   Anonymous |-> TRUE,  Pointer |-> FALSE] }

RecordDecl(k, fs) ==
    StructField(k.Name, k.Anonymous, tagNone,
                IF k.Pointer THEN PtrT(StructT(fs)) ELSE StructT(fs))

\* lists[k + 1] holds the component lists that declare exactly k components
\* in all, nested ones counted.  Decls(n, lists) are the single components
\* that declare n, themselves counted.
Decls(n, lists) ==
    (IF n = 1 THEN LeafDecls ELSE {})
    \cup { RecordDecl(k, fs) : k \in RecordKinds, fs \in lists[n] }

\* The component lists that declare exactly Len(lists) components: a first
\* component declaring k and a list declaring the rest, the names of one
\* record distinct (as the compiler requires).
NextFieldLists(lists) ==
    UNION { { <<cr[1]>> \o cr[2] :
                cr \in { x \in Decls(k, lists) \X lists[Len(lists) - k + 1] :
                           \A i \in 1..Len(x[2]) : x[2][i].Name # x[1].Name } }
            : k \in 1..Len(lists) }

RECURSIVE FieldLists(_, _)
FieldLists(lists, n) ==
    IF Len(lists) > n
    THEN UNION { lists[i] : i \in 1..Len(lists) }
    ELSE FieldLists(Append(lists, NextFieldLists(lists)), n)

\* The record types that declare at most n components in all.
TreeTypes(n) == { StructT(fs) : fs \in FieldLists(<< {<<>>} >>, n) }

\* Record types of the shapes the package's tests use, and some more: leaves
\* after a nested record, two embedded records that declare the same name,
\* records nested three deep, a pointer to a pointer to a record.
leafName == StructField(nName, FALSE, tagNone, StringT)
leafCity == StructField(nCity, FALSE, tagNone, StringT)
leafCityNamed == StructField(nCity, FALSE, tagName, StringT)
leafData == StructField(nData, FALSE, tagNone, StringT)

TestTypes ==
    { StructT(<<leafName,
                StructField(nAddress, FALSE, tagNone, StructT(<<leafName, leafCityNamed>>)),
                StructField(nInner, TRUE, tagNone, StructT(<<leafCity>>))>>),
      StructT(<<leafName,
                StructField(nAddress, TRUE, tagNone, StructT(<<leafCity>>))>>),
      StructT(<<StructField(nAddress, TRUE, tagNone, StructT(<<leafCity>>)),
                StructField(nInner, TRUE, tagNone, StructT(<<leafCity, leafName>>))>>),
      StructT(<<StructField(nAddress, FALSE, tagNone,
                    PtrT(StructT(<<StructField(nAddress, FALSE, tagNone,
                        StructT(<<StructField(nInner, TRUE, tagNone,
                                      StructT(<<leafCity>>)), leafName>>))>>))),
                leafData, leafCity>>),
      StructT(<<StructField(nAddress, TRUE, tagNone,
                    PtrT(StructT(<<leafName, leafCity>>))),
                leafData>>),
      StructT(<<StructField(nName, FALSE, tagNone,
                    PtrT(PtrT(StructT(<<leafCity>>)))),
                leafCity>>) }

\* The segments an annotation is made of.
Segments ==
    { <<"-">>,
      <<>>,
      <<"x">>,
      <<" ", "-">>,
      kName \o <<"=", "s">>,
      kLabel \o <<"=", "L">>,
      kLabel \o <<"=", "M">>,
      kPlaceholder \o <<"=", "P">>,
      kFooter \o <<"=", "a", "=", "b">>,
      <<" ">> \o kId \o <<" ", "=", " ", "n", " ">>,
      kOptions \o <<"=", "r", ",", "q">>,
      kReadonly \o <<"=">> \o sTrue,
      kType \o <<"=", "p">>,
      kClass \o <<"=", "c">> }

RECURSIVE Annotations(_)
Annotations(n) ==
    IF n = 1
    THEN Segments
    ELSE { a \o <<";">> \o g : a \in Annotations(n - 1), g \in Segments }

TagTypes ==
    { StructT(<<StructField(nName, FALSE, a, StringT)>>) :
        a \in UNION { Annotations(n) : n \in 1..MaxSegs } }

\* The contents of a value of type t: the zero value, or every string "x" and
\* every pointer set.
RECURSIVE FullContents(_)
FullContents(t) ==
    IF t.kind = "struct"
    THEN [f |-> [i \in 1..Len(t.fields) |-> FullContents(t.fields[i].Type)]]
    ELSE IF t.kind = "ptr" THEN [p |-> <<FullContents(t.elem)>>]
    ELSE [s |-> <<"x">>]

Full(t) == [t |-> t, v |-> FullContents(t)]

\* &v
AddressOf(rv) == [t |-> PtrT(rv.t), v |-> [p |-> <<rv.v>>]]

\* (*T)(nil)
NilPointer(t) == [t |-> PtrT(t), v |-> [p |-> <<>>]]

\* What a caller passes: v, &v and a nil *T for a record type T, and values
\* that are no records.
Passed(t, how) ==
    CASE how = "zero"    -> Zero(t)
      [] how = "value"   -> Full(t)
      [] how = "pointer" -> AddressOf(Full(t))
      [] how = "nil"     -> NilPointer(t)

Hows == {"zero", "value", "pointer", "nil"}

OtherArgs ==
    { Full(StringT), AddressOf(Full(StringT)), NilPointer(StringT),
      AddressOf(AddressOf(Full(StructT(<<StructField(nName, FALSE, tagNone, StringT)>>)))),
      NilPointer(PtrT(StructT(<<>>))) }

(***************************************************************************)
(* The state machine.  A caller holding arg makes one of two calls:        *)
(* fields(arg), or parseTags on the annotation of the first component of   *)
(* arg's record when that component is one fields parses the annotation of *)
(* (exported and no nested record), and then applyTags on that component's *)
(* default field and the parsed tags.                                      *)
(***************************************************************************)
Pending == [done |-> FALSE]

\* The first component declared in arg's record, as fields sees it.
FirstField == [valueOf(arg).t.fields[1] EXCEPT !.Index = <<1>>]
FirstValue == Field(valueOf(arg), 1)
HasFirstLeaf ==
    /\ Kind(valueOf(arg)) = "struct"
    /\ Len(valueOf(arg).t.fields) > 0
    /\ IsExported(FirstField)
    /\ FirstField.Type.kind = "string"

Init ==
    /\ \/ \E t \in TreeTypes(MaxNodes) \cup TestTypes \cup TagTypes, how \in Hows : arg = Passed(t, how)
       \/ arg \in OtherArgs
    /\ ret = Pending
    /\ parsed = Pending
    /\ applied = Pending

CallFields ==
    /\ ~ret.done
    /\ ~parsed.done
    /\ ret' = [done |-> TRUE, out |-> fields(arg, <<>>, <<>>)]
    /\ UNCHANGED <<arg, parsed, applied>>

CallParseTags ==
    /\ ~ret.done
    /\ ~parsed.done
    /\ HasFirstLeaf
    /\ parsed' = [done |-> TRUE, in |-> FirstField.Tag,
                  out |-> parseTags(FirstField.Tag)]
    /\ UNCHANGED <<arg, ret, applied>>

CallApplyTags ==
    /\ parsed.done
    /\ ~parsed.out.ignored
    /\ ~applied.done
    /\ applied' = [done |-> TRUE,
                   in  |-> defaultField(<<>>, FirstField, FirstValue, <<1>>),
                   out |-> applyTags(defaultField(<<>>, FirstField, FirstValue, <<1>>),
                                     parsed.out.tags)]
    /\ UNCHANGED <<arg, ret, parsed>>

Next == CallFields \/ CallParseTags \/ CallApplyTags

Spec == Init /\ [][Next]_vars

(***************************************************************************)
(* What the properties speak of, stated on the declared type tree and on   *)
(* the characters of the annotation, not by the walk of fields.            *)
(***************************************************************************)
\* The record type behind the pointers of a top-level type.
RECURSIVE BaseType(_)
BaseType(t) == IF t.kind = "ptr" THEN BaseType(t.elem) ELSE t

\* The record passed: the type fields walks when it returns.
Root == BaseType(arg.t)

\* A component type that is a record, directly or behind one pointer.
IsRecordType(t) ==
    t.kind = "struct" \/ (t.kind = "ptr" /\ t.elem.kind = "struct")

RecordOf(t) == IF t.kind = "ptr" THEN t.elem ELSE t

\* The component declared at index path p of record type t.
RECURSIVE CompAt(_, _)
CompAt(t, p) ==
    IF Len(p) = 1
    THEN t.fields[p[1]]
    ELSE CompAt(RecordOf(t.fields[p[1]].Type), Tail(p))

Exported(c) == Head(c.Name) \in UpperCase
Embedded(c) == c.Anonymous /\ IsRecordType(c.Type)

\* The index paths, within record type t, of the components of t and of the
\* records t embeds, at any depth of embedding.
RECURSIVE Promoted(_)
Promoted(t) ==
    UNION { {<<i>>} \cup
            (IF Embedded(t.fields[i])
             THEN { <<i>> \o q : q \in Promoted(RecordOf(t.fields[i].Type)) }
             ELSE {})
            : i \in 1..Len(t.fields) }

\* Go's selector rule: t.f denotes the component named f at the shallowest
\* depth of embedding, if there is exactly one at that depth.
Selected(t, p) ==
    \A q \in Promoted(t) :
        (q # p /\ CompAt(t, q).Name = CompAt(t, p).Name) => Len(q) > Len(p)

\* The annotation, its surrounding white space apart, has a segment that is
\* exactly "-": a "-" with a ";" or an end of the annotation on either side.
HasIgnoreSegment(a) ==
    \E i \in 1..Len(a) :
        /\ a[i] = "-"
        /\ \/ i > 1 /\ a[i - 1] = ";"
           \/ \A j \in 1..(i - 1) : a[j] \in WhiteSpace
        /\ \/ i < Len(a) /\ a[i + 1] = ";"
           \/ \A j \in (i + 1)..Len(a) : a[j] \in WhiteSpace

\* The index paths, from record type t, of the leaves that are accessible
\* from outside the package: selected and exported, below named records
\* that are selected and exported.
RECURSIVE VisibleLeaves(_)
VisibleLeaves(t) ==
    LET here == { p \in Promoted(t) : Selected(t, p) /\ Exported(CompAt(t, p)) }
    IN  { p \in here : ~IsRecordType(CompAt(t, p).Type) }
        \cup UNION { { p \o q : q \in VisibleLeaves(RecordOf(CompAt(t, p).Type)) }
                     : p \in { r \in here : IsRecordType(CompAt(t, r).Type)
                                            /\ ~CompAt(t, r).Anonymous } }

\* Those whose annotation does not mark them ignored.
ExpectedLeaves(t) ==
    { p \in VisibleLeaves(t) : ~HasIgnoreSegment(CompAt(t, p).Tag) }

\* The declared names from the root to the component at p, embedded records
\* left out.
RECURSIVE PathNames(_, _)
PathNames(t, p) ==
    LET c == t.fields[p[1]]
        rest == IF Len(p) = 1 THEN <<>> ELSE PathNames(RecordOf(c.Type), Tail(p))
    IN  IF Embedded(c) THEN rest ELSE <<c.Name>> \o rest

\* The components on the way to p, p's included.
OnPath(t, p) == { CompAt(t, SubSeq(p, 1, n)) : n \in 1..Len(p) }

\* p before q in depth-first pre-order of declaration.
Before(p, q) ==
    \E k \in 1..Len(q) :
        /\ k <= Len(p) + 1
        /\ \A j \in 1..(k - 1) : p[j] = q[j]
        /\ k = Len(p) + 1 \/ p[k] < q[k]

\* fields(arg) has returned a list.
Listed == ret.done /\ ret.out.panic = ""
List == ret.out.ret
Idxs == { List[i].Idx : i \in 1..Len(List) }

(***************************************************************************)
(* The claims.                                                             *)
(***************************************************************************)
\* C1: when fields returns a list for a record, the length of the list is the
\* number of leaf (non-record) components that are visible from outside the
\* package (exported and selected, reached through named records that are)
\* less those whose annotation marks them ignored; and no descriptor stands
\* for a component that is a record, directly or behind one pointer.
C1_LengthIsLeafCount ==
    Listed =>
        /\ Len(List) = Cardinality(ExpectedLeaves(Root))
        /\ \A i \in 1..Len(List) : ~IsRecordType(CompAt(Root, List[i].Idx).Type)

\* fields has returned descriptors for a record that holds a nested record
\* through a pointer and a visible leaf marked ignored.
C1_Witness ==
    /\ Listed
    /\ Len(List) >= 1
    /\ \E i \in 1..Len(Root.fields) : Root.fields[i].Type.kind = "ptr"
    /\ \E p \in VisibleLeaves(Root) : HasIgnoreSegment(CompAt(Root, p).Tag)

\* C2: the descriptors of the returned list stand in depth-first pre-order of
\* declaration: each descriptor's component is declared, in the type tree of
\* the record, before the component of every later descriptor, so that the
\* descriptors of a nested record are contiguous at that record's slot.
C2_PreOrder ==
    Listed =>
        \A i, j \in 1..Len(List) : i < j => Before(List[i].Idx, List[j].Idx)

\* A list with the leaves of a named nested record between a descriptor of an
\* earlier component of the root and one of a later component.
C2_Witness ==
    /\ Listed
    /\ \E i, j, k \in 1..Len(List) :
           /\ i < j /\ j < k
           /\ Len(List[j].Idx) > 1
           /\ ~CompAt(Root, <<List[j].Idx[1]>>).Anonymous
           /\ List[i].Idx[1] < List[j].Idx[1]
           /\ List[j].Idx[1] < List[k].Idx[1]

\* C3: the Name of every returned descriptor is, when the parsed annotation
\* of its component has no key name, the declared names of the named records
\* from the root to the leaf and the leaf's name joined with ".", embedded
\* records adding nothing; and when it has the key name, that key's value
\* and no path before it.
C3_Name ==
    Listed =>
        \A i \in 1..Len(List) :
            LET c == CompAt(Root, List[i].Idx)
                tags == parseTags(c.Tag).tags
            IN  IF kName \in DOMAIN tags
                THEN List[i].Name = tags[kName]
                ELSE List[i].Name = Join(PathNames(Root, List[i].Idx), <<".">>)

\* A list with a descriptor named by its annotation below a named record, one
\* named by a path of two names, and one of an embedded record's leaf.
C3_Witness ==
    /\ Listed
    /\ \E i \in 1..Len(List) :
           /\ Len(List[i].Idx) > 1
           /\ List[i].Name = <<"s">>
           /\ Len(PathNames(Root, List[i].Idx)) > 1
    /\ \E i \in 1..Len(List) :
           /\ Len(PathNames(Root, List[i].Idx)) = 2
           /\ List[i].Name = Join(PathNames(Root, List[i].Idx), <<".">>)
    /\ \E i \in 1..Len(List) :
           /\ Len(List[i].Idx) > 1
           /\ Len(PathNames(Root, List[i].Idx)) = 1

\* C7: no returned descriptor stands for an unexported component: its leaf is
\* exported, and so is every named record on the way to it, so that nothing
\* below an unexported named record is returned.
C7_OnlyExported ==
    Listed =>
        \A i \in 1..Len(List) :
            \A c \in OnPath(Root, List[i].Idx) : Embedded(c) \/ Exported(c)

\* fields has returned descriptors for a record that declares an unexported
\* leaf with an annotation-free or annotated tag, or an unexported named
\* record with an exported leaf below it.
C7_Witness ==
    /\ Listed
    /\ Len(List) >= 1
    /\ \E i \in 1..Len(Root.fields) :
           /\ ~Exported(Root.fields[i])
           /\ ~Root.fields[i].Anonymous
           /\ IsRecordType(Root.fields[i].Type)
           /\ \E j \in 1..Len(RecordOf(Root.fields[i].Type).fields) :
                  Exported(RecordOf(Root.fields[i].Type).fields[j])

\* The segments of an annotation that hold "=", joined again.
KeyValueOnly(a) ==
    Join(SelectSeq(Split(TrimSpace(a), ";"), LAMBDA g : IndexOf(g, "=") # 0), <<";">>)

\* C8: a visible leaf is left out of the returned list exactly when its
\* annotation, surrounding white space apart, has a ";"-separated segment that
\* is exactly "-", wherever the segment stands; parseTags then returns
\* (nil, true); and otherwise parseTags returns the tags it returns for the
\* segments that hold "=" alone: other segments change nothing.
C8_IgnoredIffMarker ==
    /\ Listed =>
           \A p \in VisibleLeaves(Root) :
               (p \notin Idxs) <=> HasIgnoreSegment(CompAt(Root, p).Tag)
    /\ parsed.done =>
           /\ parsed.out.ignored <=> HasIgnoreSegment(parsed.in)
           /\ parsed.out.ignored => parsed.out.tags = EmptyMap
           /\ ~parsed.out.ignored =>
                  parsed.out = parseTags(KeyValueOnly(parsed.in))

\* parseTags has met the marker after a segment with a key, and fields has
\* left that leaf out.
C8_Witness ==
    /\ Listed
    /\ Len(List) = 0
    /\ Len(Root.fields) = 1
    /\ Root.fields[1].Tag = kName \o <<"=", "s", ";", "-">>

\* C10: after applyTags, with label and without placeholder Label and
\* Placeholder are the label value; with placeholder, Placeholder is the
\* placeholder value and Label the label value or else the declared name,
\* whichever of the two keys the annotation writes first; with neither both
\* are the declared name.
C10_LabelPlaceholder ==
    applied.done =>
        LET tags == parsed.out.tags
            f == applied.out
            name == FirstField.Name
        IN  /\ (Has(tags, kLabel) /\ ~Has(tags, kPlaceholder)) =>
                   f.Label = tags[kLabel] /\ f.Placeholder = tags[kLabel]
            /\ Has(tags, kPlaceholder) =>
                   /\ f.Placeholder = tags[kPlaceholder]
                   /\ f.Label = IF Has(tags, kLabel) THEN tags[kLabel] ELSE name
            /\ (~Has(tags, kLabel) /\ ~Has(tags, kPlaceholder)) =>
                   f.Label = name /\ f.Placeholder = name

\* applyTags has applied an annotation that writes placeholder before label.
C10_Witness ==
    /\ applied.done
    /\ parsed.in = kPlaceholder \o <<"=", "P", ";">> \o kLabel \o <<"=", "L">>
    /\ applied.out.Label = <<"L">>
    /\ applied.out.Placeholder = <<"P">>

\* The attributes of a descriptor other than Value.
Attributes == {"Name", "Label", "Placeholder", "Type", "ID", "Class",
               "ReadOnly", "Options", "Footer"}

\* Attribute a of descriptor f; the Options of a descriptor that has none
\* are empty.
Attribute(f, a) == IF a \in DOMAIN f THEN f[a] ELSE <<>>

\* Two calls returned lists of one length that agree on every attribute but
\* Value.
Agree(x, y) ==
    /\ x.panic = "" /\ y.panic = ""
    /\ Len(x.ret) = Len(y.ret)
    /\ \A i \in 1..Len(x.ret) :
           \A a \in Attributes : Attribute(x.ret[i], a) = Attribute(y.ret[i], a)

\* C4: for a record value v, fields(v), fields(&v) and fields of a nil
\* pointer of v's type return lists of one length that agree, position by
\* position, on every attribute but Value, and the nil pointer's result is the
\* result for the zero value of the type.
C4_SameForPointerAndNil ==
    (ret.done /\ arg.t.kind = "struct") =>
        /\ Agree(ret.out, fields(AddressOf(arg), <<>>, <<>>))
        /\ Agree(ret.out, fields(NilPointer(arg.t), <<>>, <<>>))
        /\ fields(NilPointer(arg.t), <<>>, <<>>) = fields(Zero(arg.t), <<>>, <<>>)

\* C5: fields panics only with "invalid value; only structs are supported"
\* and only when valueOf(arg) is no record; when it is a record fields returns
\* a list, nil pointers to named and to embedded records among its components
\* included.
C5_OnlyNotARecord ==
    ret.done =>
        /\ ret.out.panic # "" =>
               ret.out.panic = NotARecord /\ Kind(valueOf(arg)) # "struct"
        /\ Kind(valueOf(arg)) = "struct" => ret.out.panic = ""

\* C6: the Options of a returned descriptor are the pieces of the value of the
\* key options of its component's annotation, split on ",", and are empty
\* when the annotation has no such key.
C6_Options ==
    Listed =>
        \A i \in 1..Len(List) :
            LET tags == parseTags(CompAt(Root, List[i].Idx).Tag).tags
            IN  Attribute(List[i], "Options") =
                    IF Has(tags, kOptions) THEN Split(tags[kOptions], ",") ELSE <<>>

\* The text of segment g before its first "=" and the text after it.
KeyOf(g) == TrimSpace(SubSeq(g, 1, IndexOf(g, "=") - 1))
ValueOf(g) == TrimSpace(SubSeq(g, IndexOf(g, "=") + 1, Len(g)))

\* C9: parseTags splits a segment that holds "=" on the first "=" only: the
\* key is the trimmed text before it and the value the whole trimmed text
\* after it, further "=" included; of the segments of one key the last wins.
C9_SplitOnFirstEquals ==
    (parsed.done /\ ~parsed.out.ignored) =>
        LET segs == Split(TrimSpace(parsed.in), ";")
            kvs == { i \in 1..Len(segs) : IndexOf(segs[i], "=") # 0 }
            last(i) == \A j \in kvs : KeyOf(segs[j]) = KeyOf(segs[i]) => j <= i
        IN  /\ DOMAIN parsed.out.tags = { KeyOf(segs[i]) : i \in kvs }
            /\ \A i \in kvs :
                   last(i) => parsed.out.tags[KeyOf(segs[i])] = ValueOf(segs[i])

====
